---- MODULE Spec2Model ----
(***************************************************************************)
(* A model of src/src/lib.rs: the ThreadPool, its Workers and the mpsc     *)
(* channel of Jobs they share behind Arc<Mutex<Receiver<Job>>>.            *)
(*                                                                         *)
(* The owning thread runs ThreadPool::new, then execute any number of      *)
(* times, then Drop::drop; a caller that still reaches the pool after      *)
(* drop may call execute once more.  Every Worker thread runs the loop of  *)
(* Worker::new.  Each atomic step of each thread is one action.            *)
(***************************************************************************)
EXTENDS Integers, Sequences, FiniteSets

\* Bounds of the model.
MaxSize == 2          \* pool sizes 0..MaxSize are tried
MaxJobs == 2          \* the owner calls execute at most MaxJobs times

\* Values that stand for "nothing".
NoOne == -1           \* the Mutex is free
NoMsg == 0            \* a worker's `message` is not bound
Disconnected == -1    \* `message` is Err(RecvError)

Ids  == 0 .. (MaxSize - 1)
\* Jobs are numbered in the order execute is called; the busier owner of
\* BusySpec makes one call more.
Jobs == 1 .. (MaxJobs + 1)

\* What a submitted closure does when it is called: it returns, it panics
\* (unwinding the worker thread that runs it), or it never returns.
Kinds == {"returns", "panics", "hangs"}

VARIABLES
    size,       \* the argument of ThreadPool::new
    calls,      \* how many times the owner's program calls execute at most
    main,       \* where the owning thread is
    channel,    \* TRUE once mpsc::channel() has been called
    sender,     \* ThreadPool.sender: TRUE for Some(sender), FALSE for None
    workers,    \* ThreadPool.workers: sequence of [id, thread]
    queue,      \* the Jobs buffered in the channel, oldest first
    lock,       \* the Worker holding the MutexGuard, or NoOne
    wpc,        \* where each Worker thread is
    message,    \* each Worker's local `message` / `job`
    kind,       \* what each submitted Job does when called
    nsent,      \* number of Jobs handed to execute so far
    deqLog,     \* history: Jobs in the order recv returned them
    runner,     \* history: the Worker that received each Job
    startLog,   \* history: Jobs in the order job() was called
    endLog,     \* history: Jobs in the order job() returned
    panicked,   \* history: Jobs whose call panicked
    discarded,  \* history: Jobs dropped unrun together with the Receiver
    leftAtDrop  \* history: TRUE if Jobs were still buffered when drop began

vars == <<size, calls, main, channel, sender, workers, queue, lock, wpc, message,
          kind, nsent, deqLog, runner, startLog, endLog, panicked,
          discarded, leftAtDrop>>

poolVars == <<size, calls, channel, sender, workers>>
histVars == <<deqLog, runner, startLog, endLog, panicked, discarded, leftAtDrop>>

----------------------------------------------------------------------------
\* Helpers

Range(s) == {s[k] : k \in 1 .. Len(s)}

Count(s, x) == Cardinality({k \in 1 .. Len(s) : s[k] = x})

\* A Worker thread that has been spawned and has not finished.
Live(i) == wpc[i] \in {"lock", "recv", "unlock", "match", "job"}

\* The Receiver lives as long as some Arc clone of it does: the local
\* `receiver` of ThreadPool::new, or the closure of a Worker thread that has
\* not finished.
ReceiverAliveOther(i) ==
    \/ main \in {"channel", "spawn"}
    \/ \E j \in Ids \ {i} : Live(j)

----------------------------------------------------------------------------
\* The initial state: ThreadPool::new(size) is about to be called.

Start ==
    /\ main = "new"
    /\ channel = FALSE
    /\ sender = FALSE
    /\ workers = <<>>
    /\ queue = <<>>
    /\ lock = NoOne
    /\ wpc = [i \in Ids |-> "unspawned"]
    /\ message = [i \in Ids |-> NoMsg]
    /\ kind = [t \in Jobs |-> "none"]
    /\ nsent = 0
    /\ deqLog = <<>>
    /\ runner = [t \in Jobs |-> NoOne]
    /\ startLog = <<>>
    /\ endLog = <<>>
    /\ panicked = {}
    /\ discarded = {}
    /\ leftAtDrop = FALSE

Init ==
    /\ size \in 0 .. MaxSize
    /\ calls = MaxJobs
    /\ Start

\* A busier owner: a pool that can be built, and one more call of execute.
InitBusy ==
    /\ size \in 1 .. MaxSize
    /\ calls = MaxJobs + 1
    /\ Start

----------------------------------------------------------------------------
\* ThreadPool::new

\* A variant of AssertSize that lets a size of zero through.
AssertSizeLax(n) == n >= 0

\* assert!(size > 0)
AssertSize(n) == n > 0

\* lib.rs:38  the assertion; a failed assertion panics.
NewAssert ==
    /\ main = "new"
    /\ main' = IF AssertSize(size) THEN "channel" ELSE "panicked"
    /\ UNCHANGED <<poolVars, queue, lock, wpc, message, kind, nsent, histVars>>

\* lib.rs:40-53  mpsc::channel(), Arc::new(Mutex::new(receiver)), the Vec.
NewChannel ==
    /\ main = "channel"
    /\ channel' = TRUE
    /\ main' = "spawn"
    /\ UNCHANGED <<size, calls, sender, workers, queue, lock, wpc, message,
                   kind, nsent, histVars>>

\* lib.rs:130-151  Worker::new(id, receiver): the thread is spawned and
\* starts its loop; the Worker holds Some(thread).
WorkerNew(id) ==
    /\ wpc' = [wpc EXCEPT ![id] = "lock"]
    /\ workers' = Append(workers, [id |-> id, thread |-> TRUE])

\* A variant of SpawnMore whose range is one short (1..size).
SpawnMoreShort(n) == Len(workers) < n - 1

\* The range of `for id in 0..size`.
SpawnMore(n) == Len(workers) < n

\* lib.rs:58-61  one iteration of the loop pushing Worker::new(id, ..).
NewSpawn ==
    /\ main = "spawn"
    /\ SpawnMore(size)
    /\ WorkerNew(Len(workers))
    /\ UNCHANGED <<size, calls, main, channel, sender, queue, lock, message,
                   kind, nsent, histVars>>

\* lib.rs:69-73  the loop is over; the pool is returned with Some(sender).
NewReturn ==
    /\ main = "spawn"
    /\ ~SpawnMore(size)
    /\ sender' = TRUE
    /\ main' = "ready"
    /\ UNCHANGED <<size, calls, channel, workers, queue, lock, wpc, message,
                   kind, nsent, histVars>>

----------------------------------------------------------------------------
\* ThreadPool::execute

\* A variant of Send that puts the Job at the front of the channel.
SendFront(q, t) == <<t>> \o q

\* Sender::send: the Job goes to the back of the channel.
Send(q, t) == Append(q, t)

\* A variant of UnwrapNone that skips the send instead of panicking.
UnwrapNoneQuiet(pc) == pc

\* lib.rs:94  self.sender.as_ref().unwrap() with sender = None: unwrap
\* panics, whatever the owner was doing.
UnwrapNone(pc) == "panicked"

\* A variant of ReceiverAlive for a Receiver that outlives the threads.
ReceiverAliveAlways == TRUE

\* The Receiver exists.
ReceiverAlive ==
    \/ main \in {"channel", "spawn"}
    \/ \E j \in Ids : Live(j)

\* lib.rs:92-94  self.sender.as_ref().unwrap().send(job).unwrap(): with
\* sender = None the first unwrap panics; else the Job is queued, or, when
\* the Receiver is gone, send returns Err and the second unwrap panics.  A
\* Job that is not queued is dropped unrun.  The pool takes calls while it
\* is in use and, from a caller that still reaches it, after drop.
execute(k) ==
    /\ main \in {"ready", "done"}
    /\ nsent < calls
    /\ nsent' = nsent + 1
    /\ kind' = [kind EXCEPT ![nsent + 1] = k]
    /\ IF ~sender
         THEN /\ main' = UnwrapNone(main)
              /\ discarded' = discarded \cup {nsent + 1}
              /\ UNCHANGED queue
         ELSE IF ReceiverAlive
         THEN /\ queue' = Send(queue, nsent + 1)
              /\ UNCHANGED <<main, discarded>>
         ELSE /\ main' = "panicked"
              /\ discarded' = discarded \cup {nsent + 1}
              /\ UNCHANGED queue
    /\ UNCHANGED <<poolVars, lock, wpc, message, deqLog, runner, startLog,
                   endLog, panicked, leftAtDrop>>

----------------------------------------------------------------------------
\* Drop for ThreadPool

\* lib.rs:109  drop(self.sender.take()): the channel is disconnected.
dropSender ==
    /\ main = "ready"
    /\ sender' = FALSE
    /\ main' = "take"
    /\ leftAtDrop' = (queue # <<>>)
    /\ UNCHANGED <<size, calls, channel, workers, queue, lock, wpc, message,
                   kind, nsent, deqLog, runner, startLog, endLog, panicked,
                   discarded>>

\* A variant of NextToJoin that walks the Vec from its end.
NextToJoinLast ==
    IF \E k \in 1 .. Len(workers) : workers[k].thread
      THEN CHOOSE k \in 1 .. Len(workers) :
             /\ workers[k].thread
             /\ \A m \in (k + 1) .. Len(workers) : ~workers[m].thread
      ELSE 0

\* The first Worker of the Vec the loop of drop has not visited: the loop
\* visits them in Vec order, and a visited Worker has thread = None.
NextToJoin ==
    IF \E k \in 1 .. Len(workers) : workers[k].thread
      THEN CHOOSE k \in 1 .. Len(workers) :
             /\ workers[k].thread
             /\ \A m \in 1 .. (k - 1) : ~workers[m].thread
      ELSE 0

\* lib.rs:111-114  the next Worker of the loop; worker.thread.take().
dropTake ==
    /\ main = "take"
    /\ NextToJoin # 0
    /\ workers' = [workers EXCEPT ![NextToJoin].thread = FALSE]
    /\ main' = "join"
    /\ UNCHANGED <<size, calls, channel, sender, queue, lock, wpc, message,
                   kind, nsent, histVars>>

\* The Worker whose thread was just taken.
Joining ==
    CHOOSE k \in 1 .. Len(workers) :
      /\ ~workers[k].thread
      /\ \A m \in (k + 1) .. Len(workers) : workers[m].thread

\* A variant of Joinable that does not wait for the thread.
JoinableAtOnce(i) == TRUE

\* JoinHandle::join returns once the thread has finished.
Joinable(i) == wpc[i] \in {"stopped", "aborted"}

\* A variant of JoinResult that ignores what join returns.
JoinResultIgnored(i) == "take"

\* lib.rs:116  .unwrap() of what join returned: Err, for a thread that
\* panicked, makes unwrap panic; Ok lets the loop go on.
JoinResult(i) == IF wpc[i] = "aborted" THEN "panicked" ELSE "take"

\* lib.rs:116  thread.join().unwrap(): blocks until the thread has
\* finished; Err (the thread panicked) makes unwrap panic.
dropJoin ==
    /\ main = "join"
    /\ Joinable(workers[Joining].id)
    /\ main' = JoinResult(workers[Joining].id)
    /\ UNCHANGED <<poolVars, queue, lock, wpc, message, kind, nsent, histVars>>

\* lib.rs:111,119  the loop is over; drop returns.
dropReturn ==
    /\ main = "take"
    /\ NextToJoin = 0
    /\ main' = "done"
    /\ UNCHANGED <<poolVars, queue, lock, wpc, message, kind, nsent, histVars>>

----------------------------------------------------------------------------
\* The loop of a Worker thread (lib.rs:132-145)

\* A variant of AtLock in which a thread goes for the next Job while the
\* one it called is still running.
AtLockBusy(i) == wpc[i] \in {"lock", "job"}

\* A thread is at receiver.lock() when it is at the top of its loop.
AtLock(i) == wpc[i] = "lock"

\* A variant of MutexFree for a receiver shared without mutual exclusion.
MutexFreeAlways == TRUE

\* Mutex::lock returns once no other thread holds a guard.
MutexFree == lock = NoOne

\* lib.rs:133  receiver.lock().unwrap(): blocks until the Mutex is free.
WorkerLock(i) ==
    /\ AtLock(i)
    /\ MutexFree
    /\ lock' = i
    /\ wpc' = [wpc EXCEPT ![i] = "recv"]
    /\ UNCHANGED <<poolVars, main, queue, message, kind, nsent, histVars>>

\* A variant of RecvResult that reports Err as soon as every Sender is
\* gone, whatever is still buffered.
RecvResultEager(q, connected) ==
    IF ~connected THEN Disconnected
    ELSE IF q # <<>> THEN Head(q)
    ELSE NoMsg

\* A variant of RecvResult that does not wait for a Job (as try_recv).
RecvResultNoWait(q, connected) ==
    IF q # <<>> THEN Head(q) ELSE Disconnected

\* A variant of RecvResult that never notices the disconnection.
RecvResultDeaf(q, connected) ==
    IF q # <<>> THEN Head(q) ELSE NoMsg

\* Receiver::recv: the oldest buffered Job; with nothing buffered, Err once
\* every Sender is gone, and otherwise it blocks (NoMsg: no result yet).
RecvResult(q, connected) ==
    IF q # <<>> THEN Head(q)
    ELSE IF connected THEN NoMsg
    ELSE Disconnected

\* A variant of RecvRest that leaves the received Job in the channel.
RecvRestPeek(q) == q

\* What recv leaves in the channel.
RecvRest(q) == IF q # <<>> THEN Tail(q) ELSE q

\* The channel is connected while a Sender exists: the local `sender` of
\* ThreadPool::new, then ThreadPool.sender.
Connected == main \in {"spawn"} \/ sender

\* lib.rs:133  .recv() returns, the guard still held.
WorkerRecv(i) ==
    /\ wpc[i] = "recv"
    /\ RecvResult(queue, Connected) # NoMsg
    /\ message' = [message EXCEPT ![i] = RecvResult(queue, Connected)]
    /\ queue' = RecvRest(queue)
    /\ wpc' = [wpc EXCEPT ![i] = "unlock"]
    /\ IF queue # <<>>
         THEN /\ deqLog' = Append(deqLog, Head(queue))
              /\ runner' = [runner EXCEPT ![Head(queue)] = i]
         ELSE UNCHANGED <<deqLog, runner>>
    /\ UNCHANGED <<poolVars, main, lock, kind, nsent, startLog, endLog,
                   panicked, discarded, leftAtDrop>>

\* A variant of AfterLet in which the guard lives on into the match.
AfterLetHeld(i) == i

\* The holder of the Mutex after `let message = ...;`: the temporary
\* MutexGuard is dropped at the end of the statement.
AfterLet(i) == NoOne

\* lib.rs:133  the end of the let statement drops the temporary MutexGuard.
WorkerUnlock(i) ==
    /\ wpc[i] = "unlock"
    /\ lock' = AfterLet(i)
    /\ wpc' = [wpc EXCEPT ![i] = "match"]
    /\ UNCHANGED <<poolVars, main, queue, message, kind, nsent, histVars>>

\* What remains buffered when Worker i's thread finishes: dropping the last
\* Arc drops the Receiver and every Job still in the channel with it.
QueueAfterExit(i) == IF ReceiverAliveOther(i) THEN queue ELSE <<>>

\* lib.rs:135-144  match message: Ok(job) calls job(); Err breaks the loop
\* and the thread finishes.
WorkerMatch(i) ==
    /\ wpc[i] = "match"
    /\ IF message[i] = Disconnected
         THEN /\ wpc' = [wpc EXCEPT ![i] = "stopped"]
              /\ message' = [message EXCEPT ![i] = NoMsg]
              /\ queue' = QueueAfterExit(i)
              /\ discarded' = discarded \cup (Range(queue) \ Range(queue'))
              /\ UNCHANGED startLog
         ELSE /\ wpc' = [wpc EXCEPT ![i] = "job"]
              /\ startLog' = Append(startLog, message[i])
              /\ UNCHANGED <<message, queue, discarded>>
    /\ UNCHANGED <<poolVars, main, lock, kind, nsent, deqLog, runner, endLog,
                   panicked, leftAtDrop>>

\* lib.rs:138  job() returns; the loop starts over.
JobReturn(i) ==
    /\ wpc[i] = "job"
    /\ kind[message[i]] = "returns"
    /\ endLog' = Append(endLog, message[i])
    /\ message' = [message EXCEPT ![i] = NoMsg]
    /\ wpc' = [wpc EXCEPT ![i] = "lock"]
    /\ UNCHANGED <<poolVars, main, queue, lock, kind, nsent, deqLog, runner,
                   startLog, panicked, discarded, leftAtDrop>>

\* lib.rs:138  job() panics: the thread unwinds and finishes, dropping its
\* closure and the Arc in it.
JobPanic(i) ==
    /\ wpc[i] = "job"
    /\ kind[message[i]] = "panics"
    /\ panicked' = panicked \cup {message[i]}
    /\ message' = [message EXCEPT ![i] = NoMsg]
    /\ wpc' = [wpc EXCEPT ![i] = "aborted"]
    /\ queue' = QueueAfterExit(i)
    /\ discarded' = discarded \cup (Range(queue) \ Range(queue'))
    /\ UNCHANGED <<poolVars, main, lock, kind, nsent, deqLog, runner,
                   startLog, endLog, leftAtDrop>>

----------------------------------------------------------------------------
\* The specification

Next ==
    \/ NewAssert
    \/ NewChannel
    \/ NewSpawn
    \/ NewReturn
    \/ \E k \in Kinds : execute(k)
    \/ dropSender
    \/ dropTake
    \/ dropJoin
    \/ dropReturn
    \/ \E i \in Ids : WorkerLock(i)
    \/ \E i \in Ids : WorkerRecv(i)
    \/ \E i \in Ids : WorkerUnlock(i)
    \/ \E i \in Ids : WorkerMatch(i)
    \/ \E i \in Ids : JobReturn(i)
    \/ \E i \in Ids : JobPanic(i)

Spec == Init /\ [][Next]_vars

\* The steps of Worker thread i.
WorkerStep(i) ==
    \/ WorkerLock(i)
    \/ WorkerRecv(i)
    \/ WorkerUnlock(i)
    \/ WorkerMatch(i)
    \/ JobReturn(i)
    \/ JobPanic(i)

\* The scheduler runs every thread that can take a step: each Worker
\* thread, and the owning thread once it is inside drop.  Nothing obliges
\* the owner to call execute or to drop the pool.
FairSpec ==
    /\ Spec
    /\ \A i \in Ids : WF_vars(WorkerStep(i))
    /\ WF_vars(dropTake)
    /\ WF_vars(dropJoin)
    /\ WF_vars(dropReturn)

\* The busier owner, under the same scheduling.
BusySpec ==
    /\ InitBusy
    /\ [][Next]_vars
    /\ \A i \in Ids : WF_vars(WorkerStep(i))
    /\ WF_vars(dropTake)
    /\ WF_vars(dropJoin)
    /\ WF_vars(dropReturn)

----------------------------------------------------------------------------
\* Vocabulary of the properties

Sent == 1 .. nsent

Received(t) == t \in Range(deqLog)
Started(t)  == t \in Range(startLog)
Ended(t)    == t \in Range(endLog)

\* Jobs whose call has begun and has neither returned nor panicked.
Executing == {t \in Jobs : Started(t) /\ ~Ended(t) /\ t \notin panicked}

\* Jobs Worker i has received and not yet finished with.
Held(i) == {t \in Jobs : Received(t) /\ runner[t] = i /\ ~Ended(t)
                         /\ t \notin panicked}

\* The position of Job t in endLog.
EndPos(t) == CHOOSE k \in 1 .. Len(endLog) : endLog[k] = t

\* ThreadPool::new has returned a pool.
Built == size > 0 /\ main \notin {"new", "channel", "spawn"}

\* drop has begun and has not ended.
InDrop == main \in {"take", "join"}

AllReturn == \A t \in Sent : kind[t] = "returns"
NoneHangs == \A t \in Sent : kind[t] # "hangs"

----------------------------------------------------------------------------
\* C1: when drop has returned and every submitted Job is one that returns,
\* every submitted Job has been received once, called once and has returned
\* once, the Jobs still buffered when drop began included.
C1_TeardownRunsEveryJob ==
    (main = "done" /\ AllReturn) =>
        \A t \in Sent : /\ Count(deqLog, t) = 1
                        /\ Count(startLog, t) = 1
                        /\ Count(endLog, t) = 1

\* drop has returned after Jobs were still buffered when it began.
C1_Witness ==
    /\ main = "done"
    /\ AllReturn
    /\ nsent = 2
    /\ leftAtDrop

\* C2: in every state each Job has been received at most once, hence by at
\* most one Worker, called at most once, and is not in the channel once
\* received.
C2_AtMostOnce ==
    \A t \in Jobs : /\ Count(deqLog, t) <= 1
                    /\ Count(startLog, t) <= 1
                    /\ Count(queue, t) <= 1
                    /\ Received(t) => t \notin Range(queue)

\* Two Workers have each received and called a Job.
C2_Witness ==
    /\ size = 2
    /\ Len(startLog) = 2
    /\ runner[1] # runner[2]

\* C3: when drop has returned, every Worker thread has left its loop, no
\* Job is being executed and ThreadPool.sender is None.
C3_TeardownTerminal ==
    main = "done" =>
        /\ Len(workers) = size
        /\ \A k \in 1 .. Len(workers) : wpc[workers[k].id] = "stopped"
        /\ \A i \in Ids : ~Live(i)
        /\ Executing = {}
        /\ ~sender

\* drop has returned for a pool of two Workers that ran Jobs.
C3_Witness ==
    /\ main = "done"
    /\ size = 2
    /\ Len(endLog) = 2

\* C4: under fair scheduling, once drop has begun and no submitted Job is
\* one that hangs, drop ends (it returns or it panics), and every Worker
\* thread finishes.
C4_TeardownEnds ==
    (InDrop /\ NoneHangs) ~>
        (main \in {"done", "panicked"} /\ \A i \in Ids : ~Live(i))

\* drop has panicked on joining a Worker a Job aborted, and the other
\* Worker has left its loop.
C4_Witness ==
    /\ size = 2
    /\ main = "panicked"
    /\ ~sender
    /\ panicked # {}
    /\ \E i \in Ids : wpc[i] = "stopped"

\* C5: Jobs are received in the order they were submitted: the k-th Job
\* received is the k-th Job submitted.
C5_FifoDelivery ==
    \A k \in 1 .. Len(deqLog) : deqLog[k] = k

\* Two Jobs have been received, by different Workers.
C5_Witness ==
    /\ size = 2
    /\ Len(deqLog) = 2
    /\ runner[1] # runner[2]

\* C6: in a pool of size 1, a Job is called only after every Job submitted
\* before it has returned.
C6_SingleWorkerSerial ==
    size = 1 =>
        \A a, b \in Jobs : (a < b /\ Started(b)) => Ended(a)

\* The single Worker has called the second Job.
C6_Witness ==
    /\ size = 1
    /\ Started(2)

\* C7: whenever a Job has returned while a Job submitted before it has not,
\* or returned later, the pool has at least two Workers and neither Job has
\* been received or called more than once; C7_Witness is the execution the
\* claim says exists.
C7_OutOfOrderOnlyAcrossWorkers ==
    \A a, b \in Jobs :
        (a < b /\ Ended(b) /\ (Ended(a) => EndPos(b) < EndPos(a))) =>
            /\ size >= 2
            /\ Count(deqLog, a) = 1 /\ Count(startLog, a) <= 1
            /\ Count(deqLog, b) = 1 /\ Count(startLog, b) = 1
            /\ Count(endLog, a) <= 1 /\ Count(endLog, b) = 1

\* Job 2 returned before Job 1, and each was called exactly once.
C7_Witness ==
    /\ size >= 2
    /\ endLog = <<2, 1>>
    /\ Count(startLog, 1) = 1
    /\ Count(startLog, 2) = 1

\* C8: at most `size` Jobs are executing, and a Worker holds at most one Job
\* it has received and not finished.
C8_BoundedConcurrency ==
    /\ Cardinality(Executing) <= size
    /\ \A i \in Ids : Cardinality(Held(i)) <= 1

\* As many Jobs are executing as the pool has Workers.
C8_Witness ==
    /\ size = 2
    /\ Cardinality(Executing) = 2

\* C9: with size 0 the channel is never created, no Worker is ever spawned
\* and ThreadPool::new does not get past its assertion.
C9_ZeroSizeFails ==
    size = 0 =>
        /\ ~channel
        /\ workers = <<>>
        /\ \A i \in Ids : wpc[i] = "unspawned"
        /\ main \in {"new", "panicked"}

\* ThreadPool::new(0) has panicked.
C9_Witness ==
    /\ size = 0
    /\ main = "panicked"

\* C10: once ThreadPool::new has returned, the pool has exactly `size`
\* Workers with ids 0..size-1 in this order, and this stays so; when it has
\* returned and nothing has been submitted, each of them is in its loop, at
\* lock() or in recv().
C10_ExactlyNWorkers ==
    Built =>
        /\ Len(workers) = size
        /\ \A k \in 1 .. Len(workers) : workers[k].id = k - 1
        /\ \A i \in Ids : (wpc[i] # "unspawned") <=> (i < size)
        /\ (main = "ready" /\ nsent = 0) =>
               \A i \in 0 .. (size - 1) : wpc[i] \in {"lock", "recv"}

\* A pool of two has been returned; one Worker is in recv, one at lock().
C10_Witness ==
    /\ main = "ready"
    /\ nsent = 0
    /\ size = 2
    /\ wpc[0] = "recv"
    /\ wpc[1] = "lock"

----------------------------------------------------------------------------
\* Vocabulary of the later properties

\* The channel has been created and no Sender is left.
Closed == channel /\ ~Connected

\* Worker i's recv returns in this step.
RecvStep(i) == wpc[i] = "recv" /\ wpc'[i] = "unlock"

\* execute is called in this step.
ExecuteStep == nsent' = nsent + 1

\* The Workers that hold the guard: in recv, or back from it.
Receiving == {i \in Ids : wpc[i] \in {"recv", "unlock"}}

\* C11: a call of execute while ThreadPool.sender is None panics and leaves
\* the channel, the Mutex and every Worker as they were; the Job it was
\* given is dropped, and no dropped Job is ever received or called.
C11_LateSubmitFails ==
    /\ [][(~sender /\ ExecuteStep) =>
             /\ main' = "panicked"
             /\ (nsent + 1) \in discarded'
             /\ queue' = queue
             /\ wpc' = wpc
             /\ message' = message
             /\ lock' = lock
             /\ workers' = workers
             /\ sender' = sender]_vars
    /\ [](\A t \in discarded :
             ~Received(t) /\ ~Started(t) /\ t \notin Range(queue))

\* execute was called after drop had returned, and panicked.
C11_Witness ==
    /\ main = "panicked"
    /\ ~sender
    /\ size = 2
    /\ \A i \in Ids : wpc[i] = "stopped"
    /\ nsent = 2
    /\ discarded = {2}
    /\ Ended(1)

\* C12: at most one Worker is in recv or back from it with the guard, it is
\* the holder of the Mutex, and nobody else holds the Mutex: every other
\* Worker that wants a Job is at lock().
C12_OneReceiver ==
    /\ Cardinality(Receiving) <= 1
    /\ \A i \in Receiving : lock = i
    /\ lock # NoOne => lock \in Receiving

\* One Worker is blocked in recv on the empty channel, the other at lock().
C12_Witness ==
    /\ size = 2
    /\ sender
    /\ nsent = 1
    /\ queue = <<>>
    /\ wpc[1] = "recv"
    /\ wpc[0] = "lock"

\* C13 as stated: once the channel is closed every recv returns Err, the
\* channel stays closed and nothing is added to it.
C13_ClosedRecvAlwaysErr ==
    /\ [][\A i \in Ids : (Closed /\ RecvStep(i)) =>
             message'[i] = Disconnected]_vars
    /\ [][Closed => Closed']_vars
    /\ [][Closed => Range(queue') \subseteq Range(queue)]_vars

\* C13, amended: once the channel is closed a recv does not block; it
\* returns the oldest buffered Job while there is one, and Err once the
\* channel is empty; the channel stays closed and nothing is added to it.
C13_ClosedDrainsThenErr ==
    /\ [](Closed => \A i \in Ids : wpc[i] = "recv" => ENABLED WorkerRecv(i))
    /\ [][\A i \in Ids : (Closed /\ RecvStep(i)) =>
             message'[i] = IF queue # <<>> THEN Head(queue)
                           ELSE Disconnected]_vars
    /\ [][Closed => Closed']_vars
    /\ [][Closed => /\ Range(queue') \subseteq Range(queue)
                    /\ Len(queue') <= Len(queue)]_vars

\* The only Job sent was still buffered when drop began, and a recv has
\* returned it since.
C13_Witness ==
    /\ Closed
    /\ nsent = 1
    /\ leftAtDrop
    /\ \E i \in Ids : wpc[i] = "unlock" /\ message[i] = 1

\* C14: a Worker that is past the let statement, matching its message or
\* executing a Job, does not hold the Mutex.
C14_NoLockWhileExecuting ==
    \A i \in Ids : wpc[i] \in {"match", "job"} => lock # i

\* One Worker executes a Job while the other is in recv with the guard.
C14_Witness ==
    /\ size = 2
    /\ wpc[0] = "job"
    /\ wpc[1] = "recv"
    /\ lock = 1

\* The Workers of the pool other than the one that received Job u.
Others(u) == {j \in Ids : j < size /\ j # runner[u]}

\* Worker j is executing a Job that never returns.
Stuck(j) == wpc[j] = "job" /\ kind[message[j]] = "hangs"

\* Job t waits in the channel of a pool of two or more Workers while the
\* Job u, submitted before it, is being executed.
WaitsBehind(t, u) ==
    /\ size >= 2
    /\ u < t
    /\ u \in Executing
    /\ t \in Range(queue)

\* Job t has been called, by another Worker than the one still executing
\* u if u is a Job that never returns.
Served(t, u) ==
    /\ Started(t)
    /\ kind[u] = "hangs" => runner[t] # runner[u]

\* C15 as stated: under fair scheduling, a Job that waits behind a Job
\* being executed is eventually called, unless every other Worker is stuck
\* in a Job that never returns.
C15_SlowJobBlocksNobody ==
    \A t, u \in Jobs :
        WaitsBehind(t, u) ~>
            (Served(t, u) \/ \A j \in Others(u) : Stuck(j))

\* C15, amended: under fair scheduling, a Job that waits behind a Job being
\* executed is eventually called, unless every other Worker is stuck in a
\* Job that never returns or has finished (its thread aborted by a Job).
C15_SlowJobBlocksNoLiveWorker ==
    \A t, u \in Jobs :
        WaitsBehind(t, u) ~>
            (Served(t, u) \/ \A j \in Others(u) : Stuck(j) \/ ~Live(j))

\* Job 1 never returns, and Job 2, submitted while Job 1 was executing, has
\* returned from the other Worker.
C15_Witness ==
    /\ size = 2
    /\ kind[1] = "hangs"
    /\ 1 \in Executing
    /\ Ended(2)
    /\ runner[2] # runner[1]

\* Worker i's thread leaves its loop through `break` in this step.
BreakStep(i) == wpc[i] # "stopped" /\ wpc'[i] = "stopped"

\* C16 as stated: a Worker leaves its loop only once ThreadPool.sender is
\* gone, and while the pool holds its sender every Worker is in its loop.
C16_RunningWhileSender ==
    \A i \in Ids :
        /\ wpc[i] = "stopped" => Closed
        /\ (Built /\ sender /\ i < size) => Live(i)

\* C16, amended: a Worker leaves its loop through `break` only on the Err
\* of a closed channel; while the pool holds its sender every Worker is in
\* its loop, unless a Job it called panicked and ended its thread.
C16_StopsOnlyOnClosure ==
    /\ [][\A i \in Ids : BreakStep(i) =>
             Closed /\ message[i] = Disconnected]_vars
    /\ [](\A i \in Ids :
             /\ wpc[i] = "stopped" => Closed
             /\ (Built /\ sender /\ i < size) =>
                    \/ Live(i)
                    \/ /\ wpc[i] = "aborted"
                       /\ \E t \in panicked : runner[t] = i)

\* The pool holds its sender; one Worker's thread was ended by a Job that
\* panicked, the other is in its loop.
C16_Witness ==
    /\ size = 2
    /\ main = "ready"
    /\ sender
    /\ wpc[0] = "aborted"
    /\ wpc[1] = "recv"

\* The Workers whose thread handle drop has taken.
Taken == {k \in 1 .. Len(workers) : ~workers[k].thread}

\* C17: the sender is given up once, at the start of drop and before any
\* thread handle is taken, and exists until then; handles are taken in Vec
\* order, one per step and never twice, each only after the Worker before
\* it has been joined.
C17_TeardownOrder ==
    /\ [](/\ (channel /\ main \in {"spawn", "ready"}) => Connected
          /\ Taken # {} => ~sender
          /\ \A k \in Taken : \A m \in 1 .. (k - 1) :
                 m \in Taken /\ wpc[workers[m].id] = "stopped")
    /\ [][(sender /\ ~sender') =>
             main = "ready" /\ main' = "take" /\ Taken = {}]_vars
    /\ [][sender' => (sender \/ main = "spawn")]_vars
    /\ [][/\ Len(workers') >= Len(workers)
          /\ \A k \in Taken : ~workers'[k].thread
          /\ Cardinality(Taken') <= Cardinality(Taken) + 1]_vars

\* drop has joined the first Worker and waits for the second.
C17_Witness ==
    /\ size = 2
    /\ main = "join"
    /\ Taken = {1, 2}
    /\ wpc[1] # "stopped"

\* Some Worker thread has been ended by a Job that panicked.
SomeAborted == \E i \in Ids : wpc[i] = "aborted"

\* Worker i's thread is ended by a panicking Job in this step.
AbortStep(i) == wpc[i] # "aborted" /\ wpc'[i] = "aborted"

\* The owning thread panics in this step.
OwnerPanics == main # "panicked" /\ main' = "panicked"

\* What holds of a panic in a Job whoever states C18: the step in which the
\* Job panics touches neither the owner nor the Mutex nor another Worker;
\* the Job is not called again; drop does not return once a Worker was
\* aborted; joining an aborted Worker makes the owner panic.
PanicNotHandled ==
    /\ [][\A i \in Ids : AbortStep(i) =>
             /\ main' = main
             /\ sender' = sender
             /\ lock' = lock
             /\ \A j \in Ids \ {i} :
                    wpc'[j] = wpc[j] /\ message'[j] = message[j]]_vars
    /\ [](\A t \in panicked :
             Count(startLog, t) = 1 /\ ~Ended(t) /\ t \notin Range(queue))
    /\ [](SomeAborted => main # "done")
    /\ [][(main = "join" /\ main' # main) =>
             main' = IF wpc[workers[Joining].id] = "aborted"
                       THEN "panicked" ELSE "take"]_vars

\* C18 as stated: a panic in a Job is not handled; execute goes on without
\* error, and with a Worker aborted the owner panics only in the join of
\* drop.
C18_PanicSurfacesOnlyAtJoin ==
    /\ PanicNotHandled
    /\ [][(ExecuteStep /\ sender) => main' = main]_vars
    /\ [][(OwnerPanics /\ SomeAborted) => main = "join"]_vars

\* C18, amended: a panic in a Job is not handled; execute goes on without
\* error while some Worker thread is alive, and with a Worker aborted the
\* owner panics only in the join of drop, or in execute when no Worker
\* thread is left.
C18_PanicSurfacesAtJoinOrDeadPool ==
    /\ PanicNotHandled
    /\ [][(ExecuteStep /\ sender /\ \E j \in Ids : Live(j)) =>
             main' = main]_vars
    /\ [][(OwnerPanics /\ SomeAborted) =>
             \/ main = "join"
             \/ ExecuteStep /\ main = "ready" /\ \A j \in Ids : ~Live(j)]_vars

\* Job 1 panicked on Worker 0, Job 2 then ran on Worker 1, and drop panicked
\* joining Worker 0.
C18_Witness ==
    /\ size = 2
    /\ main = "panicked"
    /\ ~sender
    /\ wpc[0] = "aborted"
    /\ 1 \in panicked
    /\ Ended(2)
    /\ Taken = {1}

\* Every Job submitted before t that is not over is one that returns.
EarlierReturn(t) ==
    \A u \in Sent : u < t => (Ended(u) \/ u \in panicked \/ kind[u] = "returns")

\* C19: a Worker thread that has finished, by break or by a panic in a Job,
\* does not hold the Mutex; and, under fair scheduling, with a Worker
\* aborted and another alive, a Job waiting in the channel is eventually
\* called, provided the Jobs before it return.
C19_LockSurvivesAborts ==
    /\ [](\A i \in Ids : ~Live(i) => lock # i)
    /\ \A t \in Jobs :
           (/\ t \in Range(queue)
            /\ SomeAborted
            /\ \E i \in Ids : Live(i)
            /\ EarlierReturn(t)) ~> Started(t)

\* Worker 0 was aborted by Job 1; Worker 1 has since taken the Mutex and
\* received Job 2.
C19_Witness ==
    /\ size = 2
    /\ wpc[0] = "aborted"
    /\ 1 \in panicked
    /\ lock = 1
    /\ wpc[1] = "unlock"
    /\ message[1] = 2

\* C20: before drop, execute queues its Job when some Worker thread is
\* alive; when none is, it panics with the sender still in place and its
\* Job is dropped; the Jobs that were buffered when the last Worker thread
\* was aborted are dropped, and a dropped Job is never received or called.
C20_ExecuteNeedsLiveWorker ==
    /\ [][(ExecuteStep /\ main = "ready" /\ \E j \in Ids : Live(j)) =>
             /\ main' = "ready"
             /\ queue' = Append(queue, nsent + 1)]_vars
    /\ [][(ExecuteStep /\ main = "ready" /\ \A j \in Ids : ~Live(j)) =>
             /\ main' = "panicked"
             /\ sender'
             /\ queue' = queue
             /\ (nsent + 1) \in discarded']_vars
    /\ []((Built /\ \A i \in Ids : i < size => wpc[i] = "aborted") =>
             /\ queue = <<>>
             /\ \A t \in Sent : Received(t) \/ t \in discarded)
    /\ [](\A t \in discarded : ~Received(t) /\ ~Started(t))
    /\ [][discarded \subseteq discarded']_vars

\* The only Worker was aborted by Job 1 with Job 2 buffered; the next
\* execute panicked.
C20_Witness ==
    /\ size = 1
    /\ main = "panicked"
    /\ sender
    /\ 1 \in panicked
    /\ nsent = 3
    /\ discarded = {2, 3}

====
